---- MODULE Spec2Model ----
(***************************************************************************)
(* The API-key authorization, quota and usage-accounting layer of the      *)
(* repository: the JSON-file store (src/utils/json-db.js) and the          *)
(* API-key middleware (src/middleware/auth.js).                            *)
(*                                                                         *)
(* Every store method is an async function: it runs from one await to the  *)
(* next without interruption, and other calls run in between.  A call in   *)
(* flight is a task; one action of the model is one such segment, and the  *)
(* instant of a readFile / writeFile is the instant the file's content is  *)
(* taken / replaced.  Text values whose characters the code looks at (API  *)
(* keys, bcrypt hashes, log prefixes) are sequences of characters.         *)
(***************************************************************************)
EXTENDS Integers, Sequences, FiniteSets, TLC

VARIABLES
    users,      \* users.json: data.users
    apiKeys,    \* api-keys.json: data.apiKeys
    logs,       \* logs.json: data.logs
    now,        \* the wall clock, in ticks
    tasks,      \* the calls in flight: task id -> its position and locals
    nextId,     \* the number of the next call (the source of its uuids)
    calls,      \* calls started so far in this run
    last,       \* what the call that completed last returned or answered
    issued,     \* history: the keys createApiKey has returned, with their owner
    revoked,    \* history: ids of the keys revokeApiKey has returned true for
    recorded,   \* history: per identity, usageToday increments written today
    faults,     \* storage failures so far
    session,    \* req.session.user of the browser client (NoUser: not set)
    shortUrls   \* shorturls.json: data.urls

vars == <<users, apiKeys, logs, now, tasks, nextId, calls, last, issued,
          revoked, recorded, faults, session, shortUrls>>

----------------------------------------------------------------------------
(* Bounds of the model. *)

\* calls started in one run of Spec
MaxOps == 3
\* calls started in one sequential run (SpecSeq)
MaxSeqOps == 3
\* direct logApiUsage calls in one run of SpecLog
MaxLogCalls == 1002
\* the clock stops here
MaxClock == 1
\* clock ticks in one calendar day
TicksPerDay == 1
\* storage failures injected in one run of SpecFault
MaxFaults == 1
\* the daily limit createUser gives an identity (1000 in the source); the
\* quota logic compares against it and never depends on its value
ApiLimit == 2

(* Program constants. *)

\* logs.json keeps this many entries
LogCap == 1000
\* characters of a presented key kept in a log entry, and of a hash compared
PrefixLen == 8
\* rateLimit of a new key
KeyRateLimit == 100
\* hex characters of a uuid without its dashes
UuidHexLen == 32
\* null / undefined for a timestamp or a date
Null == -1
\* entries of recentActivity in the admin statistics
RecentCount == 20

----------------------------------------------------------------------------
(* Text. *)

Min(a, b) == IF a < b THEN a ELSE b

HexDigits == <<"0","1","2","3","4","5","6","7","8","9","a","b","c","d","e","f">>

HexChar(n) == HexDigits[(n % 16) + 1]

\* uuidv4().replace(/-/g, ''): the uuid drawn by call n
UuidHex(n) == [i \in 1..UuidHexLen |-> HexChar(n + i - 1)]

\* `shd_${uuid}`
PlainKeyOf(n) == <<"s","h","d","_">> \o UuidHex(n)

\* a presented key that was never issued
Garbage == <<"g","a","r","b","a","g","e">>

\* String.prototype.substring(0, n)
Substring0(s, n) == SubSeq(s, 1, Min(n, Len(s)))

\* String.prototype.startsWith
StartsWith(s, p) == Len(p) <= Len(s) /\ SubSeq(s, 1, Len(p)) = p

\* bcrypt.hash(s, 10) with the salt drawn by call n: "$2a$10$", the salt, and
\* the digest, which gives s back to nobody and is compared by bcrypt alone
BcryptHash(s, n) ==
    <<"$","2","a","$","1","0","$", HexChar(n), [digest |-> s, salt |-> n]>>

\* bcrypt.compare(s, hash)
BcryptCompare(s, hash) == hash[Len(hash)].digest = s

\* new Date().toDateString() of a clock value: its calendar day
DateString(t) == t \div TicksPerDay

Today == DateString(now)

----------------------------------------------------------------------------
(* Records of the three files, and the pure part of each store method. *)

\* Array.prototype.findIndex / find, given the indexes where the test
\* holds: the first of them, 0 for -1
FirstOf(S) == IF S = {} THEN 0 ELSE CHOOSE i \in S : \A j \in S : i <= j

\* const { password, ...userWithoutPassword } = user
WithoutPassword(u) == [f \in (DOMAIN u) \ {"password"} |-> u[f]]

\* a createUser that tests nothing before it writes
UserExistsNoCheck(data, username, email) == FALSE

\* a createUser that tests the email alone
UserExistsByEmail(data, username, email) ==
    \E i \in 1..Len(data) : data[i].email = email

\* createUser: the duplicate test on the data read
UserExists(data, username, email) ==
    \E i \in 1..Len(data) :
        data[i].email = email \/ data[i].username = username

\* createUser: the new record (lastResetDate is not set yet: undefined)
NewUser(id, username, email, password, t) ==
    [id |-> id, username |-> username, email |-> email,
     password |-> BcryptHash(password, id), role |-> "user",
     createdAt |-> t, lastLogin |-> Null, isActive |-> TRUE,
     apiLimit |-> ApiLimit, usageToday |-> 0, lastResetDate |-> Null]

\* an authenticateUser that does not look at isActive
LoginIndexAnyState(data, email) ==
    FirstOf({i \in 1..Len(data) : data[i].email = email})

\* authenticateUser: data.users.find(u => u.email === email && u.isActive)
LoginIndex(data, email) ==
    FirstOf({i \in 1..Len(data) : data[i].email = email /\ data[i].isActive})

\* getUserById: the record without its password, or null
NoUser == [id |-> Null]

GetUserById(data, userId) ==
    LET i == FirstOf({j \in 1..Len(data) : data[j].id = userId})
    IN  IF i = 0 THEN NoUser ELSE WithoutPassword(data[i])

\* createApiKey: the record pushed to data.apiKeys and written
NewApiKey(id, userId, name, t) ==
    [id |-> id, userId |-> userId, name |-> name,
     key |-> BcryptHash(PlainKeyOf(id), id), plainKey |-> PlainKeyOf(id),
     createdAt |-> t, lastUsed |-> Null, usageCount |-> 0, isActive |-> TRUE,
     rateLimit |-> KeyRateLimit, endpoints |-> <<"*">>, revokedAt |-> Null]

\* createApiKey: what it returns
CreateApiKeyResult(k) ==
    [id |-> k.id, name |-> k.name, apiKey |-> k.plainKey, createdAt |-> k.createdAt]

\* a validateApiKey that does not look at isActive
ValidIndexAnyState(data, apiKey) ==
    FirstOf({i \in 1..Len(data) : BcryptCompare(apiKey, data[i].key)})

\* validateApiKey: the first record whose hash matches and that is active
ValidIndex(data, apiKey) ==
    FirstOf({i \in 1..Len(data) :
                BcryptCompare(apiKey, data[i].key) /\ data[i].isActive})

\* validateApiKey: lastUsed and usageCount of the matched record
TouchKey(data, i, t) ==
    [data EXCEPT ![i].lastUsed = t, ![i].usageCount = data[i].usageCount + 1]

\* validateApiKey: what it returns
Invalid == [valid |-> FALSE]

ValidResult(k, user) ==
    [valid |-> TRUE, userId |-> k.userId, keyId |-> k.id, user |-> user,
     permissions |-> k.endpoints, rateLimit |-> k.rateLimit]

\* a listing that returns the stored records as they are
KeyListingWhole(k) == k

\* getApiKeysByUser: the fields returned of each record
KeyListing(k) ==
    [id |-> k.id, name |-> k.name, createdAt |-> k.createdAt,
     lastUsed |-> k.lastUsed, usageCount |-> k.usageCount]

\* getApiKeysByUser: the active records of the identity, listed
GetApiKeysByUser(data, userId) ==
    LET Test(k) == k.userId = userId /\ k.isActive
        mine == SelectSeq(data, Test)
    IN  [i \in 1..Len(mine) |-> KeyListing(mine[i])]

\* revokeApiKey: findIndex(k => k.id === keyId && k.userId === userId)
RevokeIndex(data, keyId, userId) ==
    FirstOf({i \in 1..Len(data) :
                data[i].id = keyId /\ data[i].userId = userId})

\* revokeApiKey: the record marked
RevokeKey(data, i, t) ==
    [data EXCEPT ![i].isActive = FALSE, ![i].revokedAt = t]

\* logApiUsage: the entry (callers pass no data: ip and userAgent 'unknown')
LogEntry(id, apiKey, endpoint, t) ==
    [id |-> id, apiKey |-> Substring0(apiKey, PrefixLen) \o <<".",".",".">>,
     endpoint |-> endpoint, timestamp |-> t,
     ip |-> "unknown", userAgent |-> "unknown"]

\* a logApiUsage that pushes the entry at the end
UnshiftLogPush(data, entry) ==
    LET all == Append(data, entry)
    IN  IF Len(all) > LogCap THEN SubSeq(all, 1, LogCap) ELSE all

\* logApiUsage: unshift, then keep the first LogCap entries
UnshiftLog(data, entry) ==
    LET all == <<entry>> \o data
    IN  IF Len(all) > LogCap THEN SubSeq(all, 1, LogCap) ELSE all

\* an updateUserUsage that resets on every call
BumpUsageAlwaysReset(data, i, today) ==
    [data EXCEPT ![i].usageToday = 1, ![i].lastResetDate = today]

\* an updateUserUsage that stamps the date and forgets the increment
BumpUsageStampOnly(data, i, today) ==
    LET base == IF data[i].lastResetDate # today THEN 0 ELSE data[i].usageToday
    IN  [data EXCEPT ![i].usageToday = base, ![i].lastResetDate = today]

\* updateUserUsage: reset on a new day, then increment
BumpUsage(data, i, today) ==
    LET base == IF data[i].lastResetDate # today THEN 0 ELSE data[i].usageToday
    IN  [data EXCEPT ![i].usageToday = base + 1, ![i].lastResetDate = today]

\* a middleware that looks at the query before the header
ExtractKeyQueryFirst(req) ==
    IF req.query # <<>> THEN req.query
    ELSE IF req.header # <<>> THEN req.header
    ELSE req.body

\* authenticateApiKey: the first non-empty of header, query, body
ExtractKey(req) ==
    IF req.header # <<>> THEN req.header
    ELSE IF req.query # <<>> THEN req.query
    ELSE req.body

\* a middleware that admits one request more than the limit
QuotaExceededStrict(validation) ==
    /\ validation.user # NoUser
    /\ validation.user.usageToday > validation.user.apiLimit

\* a middleware that never tests the quota
QuotaExceededNever(validation) == FALSE

\* authenticateApiKey: the quota test on the validation result
QuotaExceeded(validation) ==
    /\ validation.user # NoUser
    /\ validation.user.usageToday >= validation.user.apiLimit

\* the handlers read the key they record from the query (GET routes under
\* /api/download) or from the body (POST routes under /api/tools)
HandlerKey(req) == IF req.route = "download" THEN req.query ELSE req.body

----------------------------------------------------------------------------
(* What clients send. *)

Usernames == {"alice", "bob"}
Emails == {"alice@x.com", "bob@x.com"}
Passwords == {"secret1"}
LoginPasswords == {"secret1", "wrong1"}
KeyNames == {"default"}

\* the keys a client can present: the ones it was given, or a made-up one
PresentedKeys == {i.key : i \in issued} \cup {Garbage}

\* a request to a key-protected route: where it carries the key
Requests ==
    {[header |-> <<>>, query |-> k, body |-> <<>>, route |-> "download"] :
        k \in PresentedKeys \cup {<<>>}}
    \cup {[header |-> k, query |-> <<>>, body |-> <<>>, route |-> "download"] :
        k \in PresentedKeys}
    \cup {[header |-> <<>>, query |-> <<>>, body |-> k, route |-> "tools"] :
        k \in PresentedKeys}

\* the endpoint name the route's handler records
EndpointOf(req) ==
    IF req.route = "download" THEN "tiktok_download" ELSE "qrcode_generate"

UserIds == {users[i].id : i \in 1..Len(users)}

----------------------------------------------------------------------------
(* Tasks. *)

None == [op |-> "none"]

NewTask(op, pc, arg) ==
    [op |-> op, pc |-> pc, arg |-> arg, phase |-> "db", data |-> <<>>,
     idx |-> 0, val |-> Invalid, key |-> <<>>, entry |-> None,
     responded |-> FALSE, sawRevoked |-> FALSE, wroteOver |-> FALSE]

Spawn(t) == tasks' = tasks @@ (nextId :> t)

Drop(id) == tasks' = [i \in (DOMAIN tasks) \ {id} |-> tasks[i]]

Goto(id, t) == tasks' = [tasks EXCEPT ![id] = t]

Recorded(u) == IF u \in DOMAIN recorded THEN recorded[u] ELSE 0

\* the store as init() leaves it: the three files hold empty lists
EmptyStore ==
    /\ users = <<>>
    /\ apiKeys = <<>>
    /\ issued = {}
    /\ nextId = 1

\* the store after alice has registered (call 1) and been issued a key
\* (call 2), one call after the other
SeededStore ==
    /\ users = <<NewUser(1, "alice", "alice@x.com", "secret1", 0)>>
    /\ apiKeys = <<NewApiKey(2, 1, "default", 0)>>
    /\ issued = {[key |-> PlainKeyOf(2), userId |-> 1, id |-> 2]}
    /\ nextId = 3

Init ==
    /\ EmptyStore \/ SeededStore
    /\ logs = <<>>
    /\ now = 0
    /\ tasks = <<>>
    /\ calls = 0
    /\ last = None
    /\ revoked = {}
    /\ recorded = <<>>
    /\ faults = 0
    /\ session = NoUser
    /\ shortUrls = <<>>

\* time passes; at midnight the day changes
Tick ==
    /\ now < MaxClock
    /\ now' = now + 1
    /\ recorded' = IF DateString(now + 1) # DateString(now) THEN <<>> ELSE recorded
    /\ last' = None
    /\ UNCHANGED <<users, apiKeys, logs, tasks, nextId, calls, issued, revoked,
                   faults>>
    /\ UNCHANGED <<session, shortUrls>>

----------------------------------------------------------------------------
(* createUser and authenticateUser. *)

\* createUser up to its bcrypt.hash: read, and throw on a duplicate
CallCreateUser(username, email, password) ==
    /\ nextId' = nextId + 1
    /\ calls' = calls + 1
    /\ IF UserExists(users, username, email)
       THEN /\ last' = [op |-> "createUser", id |-> nextId, ok |-> FALSE,
                        error |-> "User already exists",
                        username |-> username, email |-> email]
            /\ UNCHANGED tasks
       ELSE /\ Spawn([NewTask("createUser", "cu_write",
                        [username |-> username, email |-> email,
                         password |-> password]) EXCEPT !.data = users])
            /\ last' = None
    /\ UNCHANGED <<users, apiKeys, logs, now, issued, revoked, recorded, faults>>
    /\ UNCHANGED <<session, shortUrls>>

\* createUser after the hash: push to the data it read, write, return
CreateUserWrite(id) ==
    /\ id \in DOMAIN tasks
    /\ tasks[id].pc = "cu_write"
    /\ LET t == tasks[id]
           u == NewUser(id, t.arg.username, t.arg.email, t.arg.password, now)
       IN  /\ users' = Append(t.data, u)
           /\ last' = [op |-> "createUser", id |-> id, ok |-> TRUE,
                       value |-> WithoutPassword(u)]
    /\ Drop(id)
    /\ UNCHANGED <<apiKeys, logs, now, nextId, calls, issued, revoked, recorded, faults>>
    /\ UNCHANGED <<session, shortUrls>>

\* authenticateUser up to its write: read, find, compare
CallAuthenticateUser(email, password) ==
    /\ nextId' = nextId + 1
    /\ calls' = calls + 1
    /\ LET i == LoginIndex(users, email)
       IN  IF i = 0 \/ ~BcryptCompare(password, users[IF i = 0 THEN 1 ELSE i].password)
           THEN /\ last' = [op |-> "authenticateUser", id |-> nextId, ok |-> FALSE,
                            error |-> "Invalid credentials", email |-> email]
                /\ UNCHANGED tasks
           ELSE /\ Spawn([NewTask("authenticateUser", "au_write",
                            [email |-> email]) EXCEPT !.data = users, !.idx = i])
                /\ last' = None
    /\ UNCHANGED <<users, apiKeys, logs, now, issued, revoked, recorded, faults>>
    /\ UNCHANGED <<session, shortUrls>>

\* authenticateUser: stamp lastLogin on the data it read, write, return
AuthenticateUserWrite(id) ==
    /\ id \in DOMAIN tasks
    /\ tasks[id].pc = "au_write"
    /\ LET t == tasks[id]
           data == [t.data EXCEPT ![t.idx].lastLogin = now]
       IN  /\ users' = data
           /\ last' = [op |-> "authenticateUser", id |-> id, ok |-> TRUE,
                       value |-> WithoutPassword(data[t.idx])]
    /\ Drop(id)
    /\ UNCHANGED <<apiKeys, logs, now, nextId, calls, issued, revoked, recorded, faults>>
    /\ UNCHANGED <<session, shortUrls>>

----------------------------------------------------------------------------
(* createApiKey, revokeApiKey, getApiKeysByUser. *)

\* createApiKey up to its bcrypt.hash: read
CallCreateApiKey(userId, name) ==
    /\ nextId' = nextId + 1
    /\ calls' = calls + 1
    /\ Spawn([NewTask("createApiKey", "ck_write",
                [userId |-> userId, name |-> name]) EXCEPT !.data = apiKeys])
    /\ last' = None
    /\ UNCHANGED <<users, apiKeys, logs, now, issued, revoked, recorded, faults>>
    /\ UNCHANGED <<session, shortUrls>>

\* createApiKey after the hash: push to the data it read, write, return
CreateApiKeyWrite(id) ==
    /\ id \in DOMAIN tasks
    /\ tasks[id].pc = "ck_write"
    /\ LET t == tasks[id]
           k == NewApiKey(id, t.arg.userId, t.arg.name, now)
       IN  /\ apiKeys' = Append(t.data, k)
           /\ last' = [op |-> "createApiKey", id |-> id, ok |-> TRUE,
                       value |-> CreateApiKeyResult(k)]
           /\ issued' = issued \cup
                  {[key |-> k.plainKey, userId |-> k.userId, id |-> k.id]}
    /\ Drop(id)
    /\ UNCHANGED <<users, logs, now, nextId, calls, revoked, recorded, faults>>
    /\ UNCHANGED <<session, shortUrls>>

\* revokeApiKey up to its write: read, findIndex, throw when -1
CallRevokeApiKey(keyId, userId) ==
    /\ nextId' = nextId + 1
    /\ calls' = calls + 1
    /\ LET i == RevokeIndex(apiKeys, keyId, userId)
       IN  IF i = 0
           THEN /\ last' = [op |-> "revokeApiKey", id |-> nextId, ok |-> FALSE,
                            error |-> "API key not found"]
                /\ UNCHANGED tasks
           ELSE /\ Spawn([NewTask("revokeApiKey", "rk_write",
                            [keyId |-> keyId, userId |-> userId])
                          EXCEPT !.data = apiKeys, !.idx = i])
                /\ last' = None
    /\ UNCHANGED <<users, apiKeys, logs, now, issued, revoked, recorded, faults>>
    /\ UNCHANGED <<session, shortUrls>>

\* revokeApiKey: mark the record in the data it read, write, return true
RevokeApiKeyWrite(id) ==
    /\ id \in DOMAIN tasks
    /\ tasks[id].pc = "rk_write"
    /\ LET t == tasks[id]
       IN  /\ apiKeys' = RevokeKey(t.data, t.idx, now)
           /\ last' = [op |-> "revokeApiKey", id |-> id, ok |-> TRUE,
                       value |-> TRUE, keyId |-> t.arg.keyId]
           /\ revoked' = revoked \cup {t.arg.keyId}
    /\ Drop(id)
    /\ UNCHANGED <<users, logs, now, nextId, calls, issued, recorded, faults>>
    /\ UNCHANGED <<session, shortUrls>>

\* getApiKeysByUser: one read
CallGetApiKeysByUser(userId) ==
    /\ nextId' = nextId + 1
    /\ calls' = calls + 1
    /\ last' = [op |-> "getApiKeysByUser", id |-> nextId, ok |-> TRUE,
                value |-> GetApiKeysByUser(apiKeys, userId)]
    /\ UNCHANGED <<users, apiKeys, logs, now, tasks, issued, revoked, recorded,
                   faults>>
    /\ UNCHANGED <<session, shortUrls>>

----------------------------------------------------------------------------
(* validateApiKey, as the middleware and logApiUsage call it. *)

\* what a request's answer records: the status sent (0: none), whether next()
\* was called, the key extracted, and what validateApiKey had returned
Answer(id, status, error, next, key, validated, validation) ==
    [op |-> "request", id |-> id, status |-> status, error |-> error,
     next |-> next, key |-> key, validated |-> validated,
     validation |-> validation]

\* new differs from old in lastUsed and usageCount of record i at most
OnlyTouches(old, new, i) ==
    /\ Len(new) = Len(old)
    /\ \A n \in 1..Len(old) :
          IF n = i
          THEN [new[n] EXCEPT !.lastUsed = old[n].lastUsed,
                              !.usageCount = old[n].usageCount] = old[n]
          ELSE new[n] = old[n]

\* validateApiKey: the key file is written with the matched record touched
\* (wroteOver: the write replaced more than that in the file)
ValidateWrite(id) ==
    /\ id \in DOMAIN tasks
    /\ tasks[id].pc = "v_write"
    /\ LET t == tasks[id]
       IN  /\ apiKeys' = TouchKey(t.data, t.idx, now)
           /\ Goto(id, [t EXCEPT !.pc = "v_user",
                          !.wroteOver = ~OnlyTouches(apiKeys,
                                           TouchKey(t.data, t.idx, now), t.idx)])
    /\ last' = None
    /\ UNCHANGED <<users, logs, now, nextId, calls, issued, revoked, recorded, faults>>
    /\ UNCHANGED <<session, shortUrls>>

\* authenticateApiKey after validateApiKey returned valid: 429, or next()
\* and the handler's (not awaited) logApiUsage call with the key it reads
MiddlewareDecide(id, t, val) ==
    IF QuotaExceeded(val)
    THEN /\ last' = Answer(id, 429, "Daily API limit exceeded", FALSE, t.key,
                           TRUE, val)
         /\ Drop(id)
    ELSE /\ last' = Answer(id, 0, "", TRUE, t.key, TRUE, val)
         /\ Goto(id, [t EXCEPT !.phase = "log", !.val = val, !.data = <<>>,
                        !.key = HandlerKey(t.arg), !.pc = "l_read"])

\* validateApiKey: getUserById, and the return to the caller
ValidateUser(id) ==
    /\ id \in DOMAIN tasks
    /\ tasks[id].pc = "v_user"
    /\ LET t == tasks[id]
           k == t.data[t.idx]
           val == ValidResult(k, GetUserById(users, k.userId))
       IN  IF t.phase = "mw"
           THEN MiddlewareDecide(id, t, val)
           ELSE /\ last' = [op |-> "validateApiKey", id |-> id, ok |-> TRUE,
                            value |-> val, key |-> t.key,
                            sawRevoked |-> t.sawRevoked]
                /\ Goto(id, [t EXCEPT !.pc = "u_read", !.val = val,
                               !.data = <<>>])
    /\ UNCHANGED <<users, apiKeys, logs, now, nextId, calls, issued, revoked, recorded,
                   faults>>
    /\ UNCHANGED <<session, shortUrls>>

\* a request arrives at a key-protected route: extract the key, 401 without
\* one; validateApiKey reads the key file, 401 when no active record matches
CallRequest(req) ==
    /\ nextId' = nextId + 1
    /\ calls' = calls + 1
    /\ LET key == ExtractKey(req)
           i == ValidIndex(apiKeys, key)
       IN  IF key = <<>>
           THEN /\ last' = Answer(nextId, 401, "API key is required", FALSE,
                                  key, FALSE, Invalid)
                /\ UNCHANGED tasks
           ELSE IF i = 0
           THEN /\ last' = Answer(nextId, 401, "Invalid or expired API key",
                                  FALSE, key, TRUE, Invalid)
                /\ UNCHANGED tasks
           ELSE /\ Spawn([NewTask("request", "v_write", req) EXCEPT
                            !.phase = "mw", !.key = key, !.data = apiKeys,
                            !.idx = i,
                            !.sawRevoked = (apiKeys[i].id \in revoked)])
                /\ last' = None
    /\ UNCHANGED <<users, apiKeys, logs, now, issued, revoked, recorded, faults>>
    /\ UNCHANGED <<session, shortUrls>>

----------------------------------------------------------------------------
(* logApiUsage and updateUserUsage. *)

\* LogReturn, were a handler to report every logApiUsage call as recorded
LogReturnAlwaysLogged(id, t, thrown) ==
    IF t.op = "logApiUsage"
    THEN [op |-> "logApiUsage", id |-> id, ok |-> ~thrown, value |-> t.entry]
    ELSE IF ~t.responded
    THEN [op |-> "response", id |-> id, status |-> 200, logged |-> TRUE]
    ELSE None

\* logApiUsage is over: the call returns to its caller, or (thrown is TRUE)
\* its promise is rejected.  A handler that has not answered yet answers now
LogReturn(id, t, thrown) ==
    IF t.op = "logApiUsage"
    THEN [op |-> "logApiUsage", id |-> id, ok |-> ~thrown, value |-> t.entry]
    ELSE IF ~t.responded
    THEN [op |-> "response", id |-> id, status |-> 200, logged |-> ~thrown]
    ELSE None

\* logApiUsage called on the store directly
CallLogApiUsage(key, endpoint) ==
    /\ nextId' = nextId + 1
    /\ calls' = calls + 1
    /\ Spawn([NewTask("logApiUsage", "l_read", [endpoint |-> endpoint])
              EXCEPT !.phase = "log", !.key = key])
    /\ last' = None
    /\ UNCHANGED <<users, apiKeys, logs, now, issued, revoked, recorded, faults>>
    /\ UNCHANGED <<session, shortUrls>>

\* logApiUsage: read logs.json
LogRead(id) ==
    /\ id \in DOMAIN tasks
    /\ tasks[id].pc = "l_read"
    /\ Goto(id, [tasks[id] EXCEPT !.pc = "l_write", !.data = logs])
    /\ last' = None
    /\ UNCHANGED <<users, apiKeys, logs, now, nextId, calls, issued, revoked, recorded,
                   faults>>
    /\ UNCHANGED <<session, shortUrls>>

\* logApiUsage: unshift the entry on the data it read, cap, write; with no
\* key (undefined) apiKey.substring throws and nothing is written
LogWrite(id) ==
    /\ id \in DOMAIN tasks
    /\ tasks[id].pc = "l_write"
    /\ LET t == tasks[id]
           endpoint == IF t.op = "request" THEN EndpointOf(t.arg)
                       ELSE t.arg.endpoint
           entry == LogEntry(id, t.key, endpoint, now)
       IN  IF t.key = <<>>
           THEN /\ last' = LogReturn(id, t, TRUE)
                /\ Drop(id)
                /\ UNCHANGED logs
           ELSE /\ logs' = UnshiftLog(t.data, entry)
                /\ Goto(id, [t EXCEPT !.pc = "lv_read", !.data = <<>>,
                               !.entry = entry])
                /\ last' = None
    /\ UNCHANGED <<users, apiKeys, now, nextId, calls, issued, revoked, recorded,
                   faults>>
    /\ UNCHANGED <<session, shortUrls>>

\* logApiUsage: its own validateApiKey call reads the key file
LogValidateRead(id) ==
    /\ id \in DOMAIN tasks
    /\ tasks[id].pc = "lv_read"
    /\ LET t == tasks[id]
           i == ValidIndex(apiKeys, t.key)
       IN  IF i = 0
           THEN /\ last' = [op |-> "validateApiKey", id |-> id, ok |-> TRUE,
                            value |-> Invalid, key |-> t.key,
                            sawRevoked |-> FALSE]
                /\ Drop(id)
           ELSE /\ last' = None
                /\ Goto(id, [t EXCEPT !.pc = "v_write", !.data = apiKeys,
                               !.idx = i,
                               !.sawRevoked = (apiKeys[i].id \in revoked)])
    /\ UNCHANGED <<users, apiKeys, logs, now, nextId, calls, issued, revoked, recorded,
                   faults>>
    /\ UNCHANGED <<session, shortUrls>>

\* updateUserUsage: read users.json, findIndex
UsageRead(id) ==
    /\ id \in DOMAIN tasks
    /\ tasks[id].pc = "u_read"
    /\ LET t == tasks[id]
           i == FirstOf({j \in 1..Len(users) : users[j].id = t.val.userId})
       IN  IF i = 0
           THEN /\ last' = LogReturn(id, t, FALSE)
                /\ Drop(id)
           ELSE /\ last' = None
                /\ Goto(id, [t EXCEPT !.pc = "u_write", !.data = users,
                               !.idx = i])
    /\ UNCHANGED <<users, apiKeys, logs, now, nextId, calls, issued, revoked, recorded,
                   faults>>
    /\ UNCHANGED <<session, shortUrls>>

\* updateUserUsage: reset or increment on the data it read, write
UsageWrite(id) ==
    /\ id \in DOMAIN tasks
    /\ tasks[id].pc = "u_write"
    /\ LET t == tasks[id]
           uid == t.data[t.idx].id
       IN  /\ users' = BumpUsage(t.data, t.idx, Today)
           /\ recorded' = (uid :> (Recorded(uid) + 1)) @@ recorded
           /\ last' = LogReturn(id, t, FALSE)
           /\ Drop(id)
    /\ UNCHANGED <<apiKeys, logs, now, nextId, calls, issued, revoked, faults>>
    /\ UNCHANGED <<session, shortUrls>>

\* the handler of an admitted request sends its response before the
\* logApiUsage call it started (and does not await) has finished
Respond(id) ==
    /\ id \in DOMAIN tasks
    /\ tasks[id].op = "request"
    /\ tasks[id].phase = "log"
    /\ ~tasks[id].responded
    /\ last' = [op |-> "response", id |-> id, status |-> 200, logged |-> FALSE]
    /\ Goto(id, [tasks[id] EXCEPT !.responded = TRUE])
    /\ UNCHANGED <<users, apiKeys, logs, now, nextId, calls, issued, revoked,
                   recorded, faults>>
    /\ UNCHANGED <<session, shortUrls>>

----------------------------------------------------------------------------
(* getUserUsage and getAdminStats. *)

\* getUserUsage: read users.json; null for an unknown id
CallGetUserUsage(userId) ==
    /\ nextId' = nextId + 1
    /\ calls' = calls + 1
    /\ LET i == FirstOf({j \in 1..Len(users) : users[j].id = userId})
       IN  IF i = 0
           THEN /\ last' = [op |-> "getUserUsage", id |-> nextId, ok |-> FALSE]
                /\ UNCHANGED tasks
           ELSE /\ Spawn([NewTask("getUserUsage", "uu_keys", [userId |-> userId])
                          EXCEPT !.val = users[i]])
                /\ last' = None
    /\ UNCHANGED <<users, apiKeys, logs, now, issued, revoked, recorded, faults>>
    /\ UNCHANGED <<session, shortUrls>>

\* getUserUsage: read api-keys.json, keep the stored key of each of the
\* identity's records
UserUsageKeys(id) ==
    /\ id \in DOMAIN tasks
    /\ tasks[id].pc = "uu_keys"
    /\ LET t == tasks[id]
           Test(k) == k.userId = t.arg.userId
           mine == SelectSeq(apiKeys, Test)
       IN  Goto(id, [t EXCEPT !.pc = "uu_logs",
                       !.data = [i \in 1..Len(mine) |-> mine[i].key]])
    /\ last' = None
    /\ UNCHANGED <<users, apiKeys, logs, now, nextId, calls, issued, revoked, recorded,
                   faults>>
    /\ UNCHANGED <<session, shortUrls>>

\* getUserUsage: the entries whose apiKey starts with the first characters
\* of one of those stored keys
UserLogs(data, keys) ==
    LET Test(log) ==
            \E j \in 1..Len(keys) :
                StartsWith(log.apiKey, Substring0(keys[j], PrefixLen))
    IN  SelectSeq(data, Test)

UserUsageResult(user, userLogs, today) ==
    LET IsToday(log) == DateString(log.timestamp) = today
    IN  [totalRequests |-> Len(userLogs),
         todayRequests |-> Len(SelectSeq(userLogs, IsToday)),
         dailyLimit |-> user.apiLimit,
         usageToday |-> user.usageToday,
         lastRequest |-> IF Len(userLogs) > 0 THEN userLogs[1].timestamp
                         ELSE Null]

\* getUserUsage: read logs.json, return the statistics
UserUsageLogs(id) ==
    /\ id \in DOMAIN tasks
    /\ tasks[id].pc = "uu_logs"
    /\ LET t == tasks[id]
       IN  last' = [op |-> "getUserUsage", id |-> id, ok |-> TRUE,
                    value |-> UserUsageResult(t.val, UserLogs(logs, t.data),
                                              Today)]
    /\ Drop(id)
    /\ UNCHANGED <<users, apiKeys, logs, now, nextId, calls, issued, revoked, recorded,
                   faults>>
    /\ UNCHANGED <<session, shortUrls>>

\* getAdminStats: read users.json
CallGetAdminStats ==
    /\ nextId' = nextId + 1
    /\ calls' = calls + 1
    /\ LET Active(u) == u.isActive
       IN  Spawn([NewTask("getAdminStats", "as_keys", None) EXCEPT
                    !.val = [totalUsers |-> Len(users),
                             activeUsers |-> Len(SelectSeq(users, Active))]])
    /\ last' = None
    /\ UNCHANGED <<users, apiKeys, logs, now, issued, revoked, recorded, faults>>
    /\ UNCHANGED <<session, shortUrls>>

\* getAdminStats: read api-keys.json
AdminStatsKeys(id) ==
    /\ id \in DOMAIN tasks
    /\ tasks[id].pc = "as_keys"
    /\ LET t == tasks[id]
           Active(k) == k.isActive
       IN  Goto(id, [t EXCEPT !.pc = "as_logs",
                       !.val = [totalUsers |-> t.val.totalUsers,
                                activeUsers |-> t.val.activeUsers,
                                totalApiKeys |-> Len(apiKeys),
                                activeApiKeys |-> Len(SelectSeq(apiKeys, Active))]])
    /\ last' = None
    /\ UNCHANGED <<users, apiKeys, logs, now, nextId, calls, issued, revoked, recorded,
                   faults>>
    /\ UNCHANGED <<session, shortUrls>>

AdminStatsResult(counts, data, today) ==
    LET IsToday(log) == DateString(log.timestamp) = today
        endpoints == {data[i].endpoint : i \in 1..Len(data)}
    IN  [totalUsers |-> counts.totalUsers,
         activeUsers |-> counts.activeUsers,
         totalApiKeys |-> counts.totalApiKeys,
         activeApiKeys |-> counts.activeApiKeys,
         totalRequests |-> Len(data),
         todayRequests |-> Len(SelectSeq(data, IsToday)),
         endpointStats |->
             [e \in endpoints |->
                 Cardinality({i \in 1..Len(data) : data[i].endpoint = e})],
         recentActivity |-> SubSeq(data, 1, Min(RecentCount, Len(data)))]

\* getAdminStats: read logs.json, return the statistics
AdminStatsLogs(id) ==
    /\ id \in DOMAIN tasks
    /\ tasks[id].pc = "as_logs"
    /\ last' = [op |-> "getAdminStats", id |-> id, ok |-> TRUE,
                value |-> AdminStatsResult(tasks[id].val, logs, Today)]
    /\ Drop(id)
    /\ UNCHANGED <<users, apiKeys, logs, now, nextId, calls, issued, revoked, recorded,
                   faults>>
    /\ UNCHANGED <<session, shortUrls>>

----------------------------------------------------------------------------
(* The server: calls arrive while others are in flight. *)

----------------------------------------------------------------------------
(* Storage failures: readFile or writeFile rejects (fs error, or a file    *)
(* that does not parse), the method throws, and nothing is written.        *)

\* what the caller sees when the method a task runs throws: the middleware
\* catches and answers 500; a handler never awaited its logApiUsage call
Thrown(id, t) ==
    IF t.op = "request" /\ t.phase = "mw"
    THEN Answer(id, 500, "Authentication failed", FALSE, t.key, FALSE, Invalid)
    ELSE IF t.phase = "log"
    THEN LogReturn(id, t, TRUE)
    ELSE [op |-> t.op, id |-> id, ok |-> FALSE, error |-> "storage"]

\* the read or write a task in flight is waiting for fails
IoFail(id) ==
    /\ faults < MaxFaults
    /\ id \in DOMAIN tasks
    /\ faults' = faults + 1
    /\ last' = Thrown(id, tasks[id])
    /\ Drop(id)
    /\ UNCHANGED <<users, apiKeys, logs, now, nextId, calls, issued, revoked,
                   recorded>>
    /\ UNCHANGED <<session, shortUrls>>

\* a request arrives with a key and validateApiKey's first read fails
CallRequestReadFails(req) ==
    /\ faults < MaxFaults
    /\ ExtractKey(req) # <<>>
    /\ faults' = faults + 1
    /\ nextId' = nextId + 1
    /\ calls' = calls + 1
    /\ last' = Answer(nextId, 500, "Authentication failed", FALSE,
                      ExtractKey(req), FALSE, Invalid)
    /\ UNCHANGED <<users, apiKeys, logs, now, tasks, issued, revoked, recorded>>
    /\ UNCHANGED <<session, shortUrls>>

----------------------------------------------------------------------------
(* The server: calls arrive while others are in flight. *)

KeyIds == {k.id : k \in issued} \cup {0}

\* requests as most clients send them: the key in the query or in a header
PlainRequests == {r \in Requests : r.route = "download"}

\* a race of the store is between two read-modify-write cycles: at most two
\* calls are in flight at a time
SlotFree == Cardinality(DOMAIN tasks) < 2

Next ==
    \/ /\ calls < MaxOps
       /\ SlotFree
       /\ \/ \E u \in Usernames, e \in Emails, p \in Passwords :
                CallCreateUser(u, e, p)
          \/ \E e \in Emails, p \in LoginPasswords : CallAuthenticateUser(e, p)
          \/ \E u \in UserIds, n \in KeyNames : CallCreateApiKey(u, n)
          \/ \E k \in KeyIds, u \in UserIds : CallRevokeApiKey(k, u)
          \/ \E r \in PlainRequests : CallRequest(r)
    \/ \E id \in DOMAIN tasks :
          \/ CreateUserWrite(id)
          \/ AuthenticateUserWrite(id)
          \/ CreateApiKeyWrite(id)
          \/ RevokeApiKeyWrite(id)
          \/ ValidateWrite(id)
          \/ ValidateUser(id)
          \/ LogRead(id)
          \/ LogWrite(id)
          \/ LogValidateRead(id)
          \/ UsageRead(id)
          \/ UsageWrite(id)

Spec == Init /\ [][Next]_vars

----------------------------------------------------------------------------
(* One call after the other: a call starts when none is in flight.  Days   *)
(* pass between calls.                                                     *)

Idle == DOMAIN tasks = {}

NextSeq ==
    \/ /\ calls < MaxSeqOps
       /\ Idle
       /\ \/ \E u \in Usernames, e \in Emails, p \in Passwords :
                CallCreateUser(u, e, p)
          \/ \E u \in UserIds, n \in KeyNames : CallCreateApiKey(u, n)
          \/ \E k \in KeyIds, u \in UserIds : CallRevokeApiKey(k, u)
          \/ \E u \in UserIds : CallGetApiKeysByUser(u)
          \/ \E u \in UserIds : CallGetUserUsage(u)
          \/ CallGetAdminStats
          \/ \E r \in Requests : CallRequest(r)
    \/ \E id \in DOMAIN tasks :
          \/ CreateUserWrite(id)
          \/ CreateApiKeyWrite(id)
          \/ RevokeApiKeyWrite(id)
          \/ ValidateWrite(id)
          \/ ValidateUser(id)
          \/ LogRead(id)
          \/ LogWrite(id)
          \/ LogValidateRead(id)
          \/ UsageRead(id)
          \/ UsageWrite(id)
          \/ Respond(id)
          \/ UserUsageKeys(id)
          \/ UserUsageLogs(id)
          \/ AdminStatsKeys(id)
          \/ AdminStatsLogs(id)
    \/ Idle /\ Tick

SpecSeq == Init /\ [][NextSeq]_vars

----------------------------------------------------------------------------
(* logApiUsage called on the store again and again, one call after the     *)
(* other, with the key the store has issued (a made-up one if none).       *)

LogCallerKeys ==
    IF issued = {} THEN {Garbage} ELSE {i.key : i \in issued}

NextLog ==
    \/ /\ calls < MaxLogCalls
       /\ Idle
       /\ \E k \in LogCallerKeys : CallLogApiUsage(k, "tiktok_download")
    \/ \E id \in DOMAIN tasks :
          \/ LogRead(id)
          \/ LogWrite(id)
          \/ LogValidateRead(id)
          \/ ValidateWrite(id)
          \/ ValidateUser(id)
          \/ UsageRead(id)
          \/ UsageWrite(id)

SpecLog == Init /\ [][NextLog]_vars

----------------------------------------------------------------------------
(* Requests and calls of the account routes, one after the other, on a     *)
(* store whose reads and writes can fail.                                  *)

NextFault ==
    \/ /\ calls < MaxSeqOps
       /\ Idle
       /\ \/ \E r \in Requests : CallRequest(r)
          \/ \E r \in Requests : CallRequestReadFails(r)
          \/ \E k \in KeyIds, u \in UserIds : CallRevokeApiKey(k, u)
          \/ \E u \in Usernames, e \in Emails, p \in Passwords :
                CallCreateUser(u, e, p)
          \/ \E e \in Emails, p \in LoginPasswords : CallAuthenticateUser(e, p)
          \/ \E u \in UserIds, n \in KeyNames : CallCreateApiKey(u, n)
    \/ \E id \in DOMAIN tasks :
          \/ RevokeApiKeyWrite(id)
          \/ CreateUserWrite(id)
          \/ AuthenticateUserWrite(id)
          \/ CreateApiKeyWrite(id)
          \/ ValidateWrite(id)
          \/ ValidateUser(id)
          \/ LogRead(id)
          \/ LogWrite(id)
          \/ LogValidateRead(id)
          \/ UsageRead(id)
          \/ UsageWrite(id)
          \/ IoFail(id)
    \/ Idle /\ Tick

SpecFault == Init /\ [][NextFault]_vars

----------------------------------------------------------------------------
(* Properties. *)

\* the middleware has just answered a request whose key validated
Validated == last.op = "request" /\ last.validated /\ last.validation.valid

\* the identity a validation resolved, as validateApiKey read it
Resolved == last.validation.user

\* C1: in a run of calls made one after the other, once an identity has had
\* as many requests admitted and recorded today as its apiLimit, a request
\* presenting a valid key of that identity is answered 429 'Daily API limit
\* exceeded' and is not passed on; so is a request of an identity read with
\* usageToday = apiLimit and today's reset marker.
C1_QuotaDenied ==
    (Validated /\ Resolved # NoUser) =>
        /\ (Recorded(Resolved.id) >= Resolved.apiLimit) =>
              /\ last.status = 429
              /\ last.error = "Daily API limit exceeded"
              /\ ~last.next
        /\ (/\ Resolved.usageToday = Resolved.apiLimit
            /\ Resolved.lastResetDate = Today) => (last.status = 429)

\* exactly apiLimit requests were recorded today and the next one is denied
C1_Witness ==
    /\ Validated
    /\ Recorded(Resolved.id) = Resolved.apiLimit
    /\ Resolved.usageToday = Resolved.apiLimit
    /\ Resolved.lastResetDate = Today
    /\ last.status = 429

\* C2: a request with a valid key of an identity that reached its limit on
\* an earlier day, and has had nothing recorded today, is not answered 429.
C2_AdmittedAfterRollover ==
    (/\ Validated
     /\ Resolved # NoUser
     /\ Resolved.usageToday >= Resolved.apiLimit
     /\ Resolved.lastResetDate # Null
     /\ Resolved.lastResetDate < Today
     /\ Recorded(Resolved.id) = 0) => (last.status # 429)

\* C3: a validateApiKey call that starts after a key's revokeApiKey has
\* returned true does not return valid:true for that key, whatever calls
\* were in flight when the revoke wrote the key file.
C3_RevokedStaysInvalid ==
    (last.op = "validateApiKey" /\ last.sawRevoked) => ~last.value.valid

\* the fields of the stored and returned records that hold text written
\* from a secret or a key
TextFields == {"key", "plainKey", "apiKey", "password"}

\* a text gives the secret back: it starts with the whole secret
Leaks(text, secret) == StartsWith(text, secret)

TextsIn(rec) == {rec[f] : f \in (DOMAIN rec) \cap TextFields}

Secrets == {i.key : i \in issued}

\* C4: after createApiKey has returned a key, no record of the key file
\* holds the plaintext of that key.
C4_NoPlaintextStored ==
    (last.op = "createApiKey" /\ last.ok) =>
        \A i \in 1..Len(apiKeys) : \A text \in TextsIn(apiKeys[i]) :
            ~Leaks(text, last.value.apiKey)

\* the texts in what one of the four reading methods returned
ReturnedTexts(r) ==
    IF r.op = "getApiKeysByUser"
    THEN UNION {TextsIn(r.value[i]) : i \in 1..Len(r.value)}
    ELSE IF r.op = "validateApiKey"
    THEN TextsIn(r.value)
         \cup (IF r.value.valid THEN TextsIn(r.value.user) ELSE {})
    ELSE IF r.op = "getUserUsage"
    THEN TextsIn(r.value)
    ELSE TextsIn(r.value)
         \cup UNION {TextsIn(r.value.recentActivity[i]) :
                        i \in 1..Len(r.value.recentActivity)}

ReadingOps == {"getApiKeysByUser", "validateApiKey", "getUserUsage",
               "getAdminStats"}

\* C5: a createApiKey return holds the plaintext of the key it issued and
\* of no other issued key; no return of getApiKeysByUser, validateApiKey,
\* getUserUsage or getAdminStats holds the plaintext of an issued key.
C5_PlaintextOnlyAtIssue ==
    /\ (last.op \in ReadingOps /\ last.ok) =>
          \A text \in ReturnedTexts(last) : \A secret \in Secrets :
              ~Leaks(text, secret)
    /\ (last.op = "createApiKey" /\ last.ok) =>
          \A i \in issued :
              Leaks(last.value.apiKey, i.key) <=> (i.id = last.value.id)

\* the owner lists its keys, or the admin statistics show the log, after a
\* key was issued and used
C5_Witness ==
    /\ Secrets # {}
    /\ last.op \in ReadingOps
    /\ last.ok
    /\ ReturnedTexts(last) # {}

\* C6: a request or a validateApiKey call presenting an issued key that has
\* not been revoked validates, with the userId the key was issued to.
C6_IssuedKeyValidates ==
    \A i \in issued :
        i.id \notin revoked =>
            /\ (last.op = "request" /\ last.key = i.key) =>
                  /\ last.validation.valid
                  /\ last.validation.userId = i.userId
            /\ (last.op = "validateApiKey" /\ last.key = i.key) =>
                  /\ last.value.valid
                  /\ last.value.userId = i.userId

\* C7: no two stored identities share an email, and no two a username.
C7_UniqueIdentities ==
    \A i, j \in 1..Len(users) :
        i # j => /\ users[i].email # users[j].email
                 /\ users[i].username # users[j].username

\* a createUser has written and returned while another createUser for the
\* same username or email, which read before that write, is still in flight
C7_Witness ==
    /\ last.op = "createUser"
    /\ last.ok
    /\ \E id \in DOMAIN tasks :
          /\ tasks[id].op = "createUser"
          /\ \/ tasks[id].arg.username = last.value.username
             \/ tasks[id].arg.email = last.value.email

\* C8: a createUser call made while a stored identity has the username or
\* has the email throws 'User already exists', and the identity file is as
\* it was.
C8_DuplicateRejected ==
    [][\A u \in Usernames, e \in Emails, p \in Passwords :
          (/\ CallCreateUser(u, e, p)
           /\ \E i \in 1..Len(users) :
                 users[i].username = u \/ users[i].email = e)
          => /\ last'.op = "createUser"
             /\ ~last'.ok
             /\ last'.error = "User already exists"
             /\ users' = users
             /\ tasks' = tasks]_vars

\* a createUser was refused for its username alone: no stored identity has
\* its email
C8_Witness ==
    /\ last.op = "createUser"
    /\ ~last.ok
    /\ \E i \in 1..Len(users) : users[i].username = last.username
    /\ \A i \in 1..Len(users) : users[i].email # last.email

\* C9: the log never holds more than 1000 entries; after n logApiUsage
\* calls made one after the other it holds min(n, 1000) entries, which are
\* those of the latest calls, the newest first.
C9_LogRetention ==
    /\ Len(logs) <= LogCap
    /\ Idle =>
          /\ Len(logs) = Min(calls, LogCap)
          /\ \A i \in 1..Len(logs) : logs[i].id = nextId - i

\* the 1001st call has returned: the entry of the first call is gone
C9_Witness ==
    /\ Idle
    /\ calls = LogCap + 1
    /\ Len(logs) = LogCap
    /\ logs[1].id = nextId - 1
    /\ logs[LogCap].id = nextId - LogCap

\* the answers of authenticateApiKey
Rejected(status, error) ==
    last.status = status /\ last.error = error /\ ~last.next

Admitted == last.status = 0 /\ last.next

\* an active record of the key file matches the key the request presented
KeyMatches ==
    \E i \in 1..Len(apiKeys) :
        BcryptCompare(last.key, apiKeys[i].key) /\ apiKeys[i].isActive

\* C10 as stated: every request is answered 401 or 429, or is admitted.
C10_FourOutcomes ==
    last.op = "request" =>
        \/ Rejected(401, "API key is required")
        \/ Rejected(401, "Invalid or expired API key")
        \/ Rejected(429, "Daily API limit exceeded")
        \/ Admitted

\* C10, amended: a request is answered 401 when it presents no key; else
\* 500 'Authentication failed' when validateApiKey throws; else 401 when it
\* returns valid:false; else 429 when the identity read has usageToday >=
\* apiLimit; else it is admitted.  A rejected request is not passed on, and
\* an admitted one presented a key that an active record matches.
C10_OneOutcome ==
    last.op = "request" =>
        /\ last.key = <<>> => Rejected(401, "API key is required")
        /\ (last.key # <<>> /\ ~last.validated) =>
              Rejected(500, "Authentication failed")
        /\ (last.key # <<>> /\ last.validated /\ ~last.validation.valid) =>
              /\ Rejected(401, "Invalid or expired API key")
              /\ ~KeyMatches
        /\ (last.key # <<>> /\ Validated) =>
              IF /\ Resolved # NoUser
                 /\ Resolved.usageToday >= Resolved.apiLimit
              THEN Rejected(429, "Daily API limit exceeded")
              ELSE Admitted /\ KeyMatches
        /\ last.status # 0 => ~last.next

\* validateApiKey threw for a request that presented an issued key
C10_Witness ==
    /\ last.op = "request"
    /\ last.key \in Secrets
    /\ ~last.validated
    /\ Rejected(500, "Authentication failed")

----------------------------------------------------------------------------
(* Requests that carry a key in more than one place, one after the other.  *)

\* a key or nothing in each of the header, the query and the body
MixedRequests ==
    {[header |-> h, query |-> q, body |-> b, route |-> r] :
        h \in PresentedKeys \cup {<<>>}, q \in PresentedKeys \cup {<<>>},
        b \in PresentedKeys \cup {<<>>}, r \in {"download", "tools"}}

NextExtract ==
    \/ /\ calls < MaxSeqOps
       /\ Idle
       /\ \E r \in MixedRequests : CallRequest(r)
    \/ \E id \in DOMAIN tasks :
          \/ ValidateWrite(id)
          \/ ValidateUser(id)
          \/ LogRead(id)
          \/ LogWrite(id)
          \/ LogValidateRead(id)
          \/ UsageRead(id)
          \/ UsageWrite(id)

SpecExtract == Init /\ [][NextExtract]_vars

\* the key the middleware went on with, after a step that took a request in
ExtractedKey ==
    IF last'.op = "request" THEN last'.key ELSE tasks'[nextId].key

\* C11: the key authenticateApiKey validates is the header's when the header
\* has one, else the query's when the query has one, else the body's.
C11_ExtractionOrder ==
    [][\A r \in MixedRequests :
          CallRequest(r) =>
              /\ r.header # <<>> => ExtractedKey = r.header
              /\ (r.header = <<>> /\ r.query # <<>>) => ExtractedKey = r.query
              /\ (r.header = <<>> /\ r.query = <<>>) => ExtractedKey = r.body]_vars

\* a request with different keys in the header and in the query was
\* validated by the header's
C11_Witness ==
    \E id \in DOMAIN tasks :
        /\ tasks[id].op = "request"
        /\ tasks[id].phase = "mw"
        /\ tasks[id].arg.header \in Secrets
        /\ tasks[id].arg.query = Garbage
        /\ tasks[id].key = tasks[id].arg.header

\* C12 as stated: a request whose key does not validate, for whatever
\* reason (no match, inactive record, an error during validation), gets the
\* answer of an invalid key.
C12_SameOutcomeOnError ==
    (last.op = "request" /\ last.key # <<>> /\ ~last.validation.valid) =>
        /\ last.validated
        /\ Rejected(401, "Invalid or expired API key")

\* C12, amended: for a key that no active record matches (no record has its
\* hash, or the record is inactive) validateApiKey returns {valid:false} and
\* nothing else, and the request is answered 401 'Invalid or expired API
\* key' in both cases; when a read or write fails during validation,
\* validateApiKey throws and the request is answered 500.
C12_FailsClosed ==
    /\ (last.op = "request" /\ last.key # <<>> /\ last.validated
            /\ ~KeyMatches) =>
          /\ last.validation = Invalid
          /\ Rejected(401, "Invalid or expired API key")
    /\ (last.op = "request" /\ last.key # <<>> /\ ~last.validated) =>
          /\ Rejected(500, "Authentication failed")
          /\ faults > 0
    /\ (last.op = "validateApiKey" /\ ~last.value.valid) =>
          last.value = Invalid

\* a request presenting a revoked key was answered as an unknown key is
C12_Witness ==
    /\ last.op = "request"
    /\ \E i \in issued : i.key = last.key /\ i.id \in revoked
    /\ last.validation = Invalid
    /\ Rejected(401, "Invalid or expired API key")

\* C13: a revokeApiKey call made while no active record has that id and
\* that owner throws 'API key not found' and leaves the key file as it is.
C13_RevokeNeedsActiveKey ==
    [][\A k \in KeyIds, u \in UserIds :
          (/\ CallRevokeApiKey(k, u)
           /\ ~\E i \in 1..Len(apiKeys) :
                 /\ apiKeys[i].id = k
                 /\ apiKeys[i].userId = u
                 /\ apiKeys[i].isActive)
          => /\ last'.op = "revokeApiKey"
             /\ ~last'.ok
             /\ last'.error = "API key not found"
             /\ tasks' = tasks
             /\ apiKeys' = apiKeys]_vars

----------------------------------------------------------------------------
(* Logins, one after the other, on a store that holds an identity an       *)
(* operator has deactivated in users.json.                                 *)

\* what the login route answers for what authenticateUser returned or threw
LoginResponse(r) ==
    IF r.ok
    THEN [status |-> 200, success |-> TRUE, message |-> "Login successful"]
    ELSE [status |-> 401, success |-> FALSE,
          error |-> "Invalid email or password"]

LoginEmails == Emails \cup {"carol@x.com"}

InitLogin ==
    /\ users = <<NewUser(1, "alice", "alice@x.com", "secret1", 0),
                 [NewUser(2, "bob", "bob@x.com", "secret1", 0)
                     EXCEPT !.isActive = FALSE]>>
    /\ apiKeys = <<>>
    /\ issued = {}
    /\ nextId = 3
    /\ logs = <<>>
    /\ now = 0
    /\ tasks = <<>>
    /\ calls = 0
    /\ last = None
    /\ revoked = {}
    /\ recorded = <<>>
    /\ faults = 0
    /\ session = NoUser
    /\ shortUrls = <<>>

NextLogin ==
    \/ /\ calls < MaxSeqOps
       /\ Idle
       /\ \/ \E e \in LoginEmails, p \in LoginPasswords :
                CallAuthenticateUser(e, p)
          \/ \E u \in {"carol"}, e \in LoginEmails, p \in Passwords :
                CallCreateUser(u, e, p)
    \/ \E id \in DOMAIN tasks :
          \/ AuthenticateUserWrite(id)
          \/ CreateUserWrite(id)
    \/ Idle /\ Tick

SpecLogin == InitLogin /\ [][NextLogin]_vars

\* C14: a login for an email no stored identity has, for an inactive
\* identity, or with a password that does not match throws 'Invalid
\* credentials', is answered 401 with one and the same body, and leaves the
\* identity file as it is; lastLogin changes only in the step in which a
\* login succeeds, to the current time, and only on the identity logged in.
C14_LoginFailures ==
    [][/\ \A e \in LoginEmails, p \in LoginPasswords :
             (/\ CallAuthenticateUser(e, p)
              /\ \A i \in 1..Len(users) :
                    users[i].email = e =>
                        \/ ~users[i].isActive
                        \/ ~BcryptCompare(p, users[i].password))
             => /\ last'.op = "authenticateUser"
                /\ ~last'.ok
                /\ last'.error = "Invalid credentials"
                /\ LoginResponse(last') =
                      [status |-> 401, success |-> FALSE,
                       error |-> "Invalid email or password"]
                /\ users' = users
                /\ tasks' = tasks
       /\ (\E i \in 1..Len(users) : users'[i].lastLogin # users[i].lastLogin)
             => /\ last'.op = "authenticateUser"
                /\ last'.ok
                /\ \E i \in 1..Len(users) :
                      /\ users[i].id = last'.value.id
                      /\ users' = [users EXCEPT ![i].lastLogin = now]]_vars

\* a login for the deactivated identity, with its password, was refused
C14_Witness ==
    /\ last.op = "authenticateUser"
    /\ ~last.ok
    /\ \E i \in 1..Len(users) :
          /\ users[i].email = last.email
          /\ ~users[i].isActive
          /\ users[i].lastLogin = Null

\* the status the catch block of an account route answers with when the
\* store method it awaits throws
CatchStatus(op) ==
    IF op = "createUser" THEN 400
    ELSE IF op = "authenticateUser" THEN 401
    ELSE 500

\* the status of the answer to a call that failed
FailureStatus(r) == IF r.op = "request" THEN r.status ELSE CatchStatus(r.op)

\* C15: when a read or write of the store fails during a registration, a
\* login, a key issue, a key revocation or the middleware's validation, the
\* request is answered with a 5xx status and the key file is as the request
\* found it.
C15_FailureIs5xxAndClean ==
    [][\A id \in DOMAIN tasks :
          (IoFail(id) /\ tasks[id].phase # "log") =>
              /\ FailureStatus(last') >= 500
              /\ tasks[id].phase = "mw" => apiKeys = tasks[id].data]_vars

\* C16: the response to a request whose logApiUsage call has thrown reports
\* a failure, not success.
C16_LogFailureReported ==
    (/\ last.op = "response"
     /\ ~last.logged
     /\ last.id \notin DOMAIN tasks) => last.status >= 500

\* C17: a key createApiKey has returned stays in api-keys.json, and an
\* identity createUser has just returned is still in users.json after the
\* next step of any call.
C17_RecordsNeverLost ==
    [][/\ \A i \in issued' :
             \E n \in 1..Len(apiKeys') : apiKeys'[n].id = i.id
       /\ (last.op = "createUser" /\ last.ok) =>
             \E n \in 1..Len(users') : users'[n].id = last.value.id]_vars

\* C18: the write of a validateApiKey call that found a match sets lastUsed
\* to now and adds one to usageCount on the matched key record, and leaves
\* every other key record in api-keys.json as it was.
C18_ValidateTouchesOneRecord ==
    [][\A id \in DOMAIN tasks :
          ValidateWrite(id) =>
              /\ Len(apiKeys') = Len(apiKeys)
              /\ \A n \in 1..Len(apiKeys) :
                    IF n = tasks[id].idx
                    THEN /\ apiKeys'[n].lastUsed = now
                         /\ apiKeys'[n].usageCount = apiKeys[n].usageCount + 1
                    ELSE apiKeys'[n] = apiKeys[n]]_vars

\* C19: when the logApiUsage call of an admitted request is over, logs.json
\* holds the entry of that request and one more usageToday increment has
\* been written for the admitted identity, however the key was presented.
C19_AdmittedIsRecorded ==
    [][\A id \in DOMAIN tasks :
          (/\ tasks[id].op = "request"
           /\ tasks[id].phase = "log"
           /\ id \notin DOMAIN tasks') =>
              /\ \E n \in 1..Len(logs') : logs'[n].id = id
              /\ tasks[id].val.userId \in DOMAIN recorded'
              /\ recorded'[tasks[id].val.userId]
                    = Recorded(tasks[id].val.userId) + 1]_vars

----------------------------------------------------------------------------
(* The quota check and the usage counter under concurrent requests. *)

\* alice and her key are stored; requests with the key, logApiUsage calls
\* and revocations by alice run with at most two in flight
InitRace ==
    /\ SeededStore
    /\ logs = <<>>
    /\ now = 0
    /\ tasks = <<>>
    /\ calls = 0
    /\ last = None
    /\ revoked = {}
    /\ recorded = <<>>
    /\ faults = 0
    /\ session = NoUser
    /\ shortUrls = <<>>

NextRace ==
    \/ /\ calls < MaxOps
       /\ SlotFree
       /\ \/ \E r \in PlainRequests : CallRequest(r)
          \/ \E k \in PresentedKeys : CallLogApiUsage(k, "tiktok_download")
          \/ \E k \in KeyIds \ {0} : CallRevokeApiKey(k, 1)
    \/ \E id \in DOMAIN tasks :
          \/ RevokeApiKeyWrite(id)
          \/ ValidateWrite(id)
          \/ ValidateUser(id)
          \/ LogRead(id)
          \/ LogWrite(id)
          \/ LogValidateRead(id)
          \/ UsageRead(id)
          \/ UsageWrite(id)

SpecRace == InitRace /\ [][NextRace]_vars

\* C21: the quota check and the increment are separate steps.  The step of
\* authenticateApiKey that decides admits exactly when the usageToday that
\* validateApiKey read is below apiLimit, and writes nothing to users.json;
\* so two requests can both pass on usageToday = apiLimit - 1.
C21_CheckThenIncrement ==
    [][\A id \in DOMAIN tasks :
          (ValidateUser(id) /\ tasks[id].phase = "mw") =>
              /\ users' = users
              /\ last'.op = "request"
              /\ last'.validation.user # NoUser =>
                    (last'.next <=> last'.validation.user.usageToday
                                      < last'.validation.user.apiLimit)]_vars

\* one request of alice was recorded, and two more have both been admitted
\* on usageToday = apiLimit - 1 before either incremented: apiLimit + 1
\* admitted in one day
C21_Witness ==
    /\ last.op = "request"
    /\ last.next
    /\ last.validation.user # NoUser
    /\ last.validation.user.usageToday = last.validation.user.apiLimit - 1
    /\ Recorded(last.validation.userId) = last.validation.user.apiLimit - 1
    /\ \E id \in DOMAIN tasks \ {last.id} :
          /\ tasks[id].op = "request"
          /\ tasks[id].phase = "log"
          /\ tasks[id].val.userId = last.validation.userId
          /\ tasks[id].val.user.usageToday = last.validation.user.apiLimit - 1
          /\ tasks[id].pc = "l_read"

\* C22: updateUserUsage writes the counter it read plus one (one, when the
\* date it read is not today), whatever users.json holds by then; the
\* stored counter is never above the number of increments written today,
\* and two calls that both read n leave n + 1.
C22_WritesReadPlusOne ==
    [][\A id \in DOMAIN tasks :
          UsageWrite(id) =>
              LET t == tasks[id]
                  read == t.data[t.idx]
              IN  /\ users'[t.idx].usageToday
                        = (IF read.lastResetDate # Today THEN 0
                           ELSE read.usageToday) + 1
                  /\ read.id \in DOMAIN recorded'
                  /\ users'[t.idx].usageToday <= recorded'[read.id]]_vars

\* three updateUserUsage calls for alice have completed, the last two read
\* the same counter: it stands at 2
C22_Witness ==
    /\ tasks = <<>>
    /\ Recorded(1) = 3
    /\ users[1].usageToday = 2
    /\ users[1].lastResetDate = Today

\* C23: the write of updateUserUsage leaves the identity with lastResetDate
\* today and usageToday 1 when the stored lastResetDate was another date
\* (or none), the stored usageToday plus one otherwise, and leaves every
\* other identity in users.json as it was.
C23_UsageUpdated ==
    [][\A id \in DOMAIN tasks :
          UsageWrite(id) =>
              LET uid == tasks[id].val.userId
              IN  /\ Len(users') = Len(users)
                  /\ \A n \in 1..Len(users) :
                        IF users[n].id = uid
                        THEN /\ users'[n].lastResetDate = Today
                             /\ users'[n].usageToday =
                                   IF users[n].lastResetDate # Today THEN 1
                                   ELSE users[n].usageToday + 1
                        ELSE users'[n] = users[n]]_vars

----------------------------------------------------------------------------
(* What a revocation and a rejected request leave in the stores. *)

\* C25: the write of a successful revokeApiKey(keyId, userId) changes
\* api-keys.json in isActive (false) and revokedAt (now) of the record with
\* that id and owner and in nothing else, and getApiKeysByUser of the owner
\* no longer lists the key.
C25_RevokeTouchesOneRecord ==
    [][\A id \in DOMAIN tasks :
          RevokeApiKeyWrite(id) =>
              LET a == tasks[id].arg
              IN  /\ Len(apiKeys') = Len(apiKeys)
                  /\ \A n \in 1..Len(apiKeys) :
                        IF apiKeys[n].id = a.keyId /\ apiKeys[n].userId = a.userId
                        THEN apiKeys'[n] = [apiKeys[n] EXCEPT !.isActive = FALSE,
                                                              !.revokedAt = now]
                        ELSE apiKeys'[n] = apiKeys[n]
                  /\ \A n \in 1..Len(GetApiKeysByUser(apiKeys', a.userId)) :
                        GetApiKeysByUser(apiKeys', a.userId)[n].id # a.keyId]_vars

\* C26: the totalRequests that getUserUsage(userId) returns is the number
\* of entries in logs.json that logApiUsage wrote with a key issued to
\* userId.
C26_TotalRequestsAttributed ==
    [][\A id \in DOMAIN tasks :
          UserUsageLogs(id) =>
              LET uid == tasks[id].arg.userId
                  Mine(log) ==
                      \E i \in issued :
                          /\ i.userId = uid
                          /\ log.apiKey = Substring0(i.key, PrefixLen)
                                            \o <<".", ".", ".">>
              IN  last'.value.totalRequests = Len(SelectSeq(logs, Mine))]_vars

\* registrations, key creations and requests with at most two in flight,
\* long enough for an identity to register, get a key and use it
MaxRaceOps == 4

NextOwner ==
    \/ /\ calls < MaxRaceOps
       /\ SlotFree
       /\ \/ \E u \in Usernames, e \in Emails, p \in Passwords :
                CallCreateUser(u, e, p)
          \/ \E u \in UserIds, n \in KeyNames : CallCreateApiKey(u, n)
          \/ \E r \in PlainRequests : CallRequest(r)
    \/ \E id \in DOMAIN tasks :
          \/ CreateUserWrite(id)
          \/ CreateApiKeyWrite(id)
          \/ ValidateWrite(id)
          \/ ValidateUser(id)
          \/ LogRead(id)
          \/ LogWrite(id)
          \/ LogValidateRead(id)
          \/ UsageRead(id)
          \/ UsageWrite(id)

SpecOwner == Init /\ [][NextOwner]_vars

\* C27: a request that authenticateApiKey admits has the stored identity
\* that owns the validated key attached as req.user.
C27_AdmittedHasIdentity ==
    (last.op = "request" /\ last.next) =>
        /\ last.validation.user # NoUser
        /\ last.validation.user.id = last.validation.userId

\* C28: a request answered 401 has written nothing; a request answered 429
\* has written nothing to users.json and logs.json, and its one write to
\* api-keys.json changed lastUsed and usageCount of the matched record and
\* nothing else in the file.
C28_RejectedLeavesStores ==
    [][/\ (last'.op = "request" /\ last'.status = 401) =>
              UNCHANGED <<users, apiKeys, logs>>
       /\ \A id \in DOMAIN tasks :
              /\ (ValidateWrite(id) /\ tasks[id].phase = "mw") =>
                    UNCHANGED <<users, logs>>
              /\ (/\ ValidateUser(id)
                  /\ tasks[id].phase = "mw"
                  /\ last'.status = 429) =>
                    /\ UNCHANGED <<users, apiKeys, logs>>
                    /\ ~tasks[id].wroteOver]_vars

----------------------------------------------------------------------------
(* The account routes over HTTP: the session that register and login set,  *)
(* and the key-management routes of the /api/auth router.                  *)

\* req.user as a handler of the /api/auth router finds it.  The router is
\* mounted behind authLimiter only; authenticateJWT, which copies
\* req.session.user to req.user, guards /dashboard and /admin, and nothing
\* else assigns req.user: it is undefined whatever the session holds
ReqUser(sess) == NoUser

\* a register or login call of the store has returned and its route has
\* not answered yet
RoutePending == last.op \in {"createUser", "authenticateUser"} /\ last.ok

\* the register and login routes after the store has returned the
\* identity: a browser (req.accepts('html')) gets the session and a
\* redirect, another client the token
SessionRespond(html) ==
    /\ RoutePending
    /\ session' = IF html THEN last.value ELSE session
    /\ last' = [op |-> "login", id |-> last.id,
                status |-> IF html THEN 302 ELSE 200, user |-> last.value]
    /\ UNCHANGED <<users, apiKeys, logs, now, tasks, nextId, calls, issued,
                   revoked, recorded, faults, shortUrls>>

KeyRoutes == {"api-keys", "api-key", "profile"}

\* GET /api/auth/api-keys, DELETE /api/auth/api-key/:keyId and GET
\* /api/auth/profile: 401 without req.user, else the call of the store
CallKeyRoute(route, keyId) ==
    LET user == ReqUser(session)
    IN  IF user = NoUser
        THEN /\ nextId' = nextId + 1
             /\ calls' = calls + 1
             /\ last' = [op |-> "route", id |-> nextId, route |-> route,
                         status |-> 401, error |-> "Authentication required",
                         loggedIn |-> session # NoUser]
             /\ UNCHANGED <<users, apiKeys, logs, now, tasks, issued, revoked,
                            recorded, faults, session, shortUrls>>
        ELSE \/ route = "api-keys" /\ CallGetApiKeysByUser(user.id)
             \/ route = "api-key" /\ CallRevokeApiKey(keyId, user.id)
             \/ route = "profile" /\ CallGetUserUsage(user.id)

NextSession ==
    \/ /\ calls < MaxSeqOps
       /\ Idle
       /\ ~RoutePending
       /\ \/ \E u \in Usernames, e \in LoginEmails, p \in Passwords :
                CallCreateUser(u, e, p)
          \/ \E e \in LoginEmails, p \in LoginPasswords :
                CallAuthenticateUser(e, p)
          \/ \E r \in KeyRoutes, k \in KeyIds : CallKeyRoute(r, k)
    \/ \E id \in DOMAIN tasks :
          \/ CreateUserWrite(id)
          \/ AuthenticateUserWrite(id)
          \/ RevokeApiKeyWrite(id)
          \/ UserUsageKeys(id)
          \/ UserUsageLogs(id)
    \/ \E html \in BOOLEAN : SessionRespond(html)
    \/ Idle /\ Tick

SpecSession == InitLogin /\ [][NextSession]_vars

\* C29: a key-management route called by a client whose session holds a
\* logged-in identity is not answered 401.
C29_LoggedInReachesKeyRoutes ==
    (last.op = "route" /\ last.loggedIn) => last.status # 401

----------------------------------------------------------------------------
(* POST /api/tools/shorturl: the handler of an admitted request. *)

MaxSlugLen == 2

SlugChars == {"a", "B", " "}

\* the customSlug a request body carries (<<>>: none)
Slugs == UNION {[1..n -> SlugChars] : n \in 0..MaxSlugLen}

RECURSIVE TrimStart(_)
TrimStart(s) ==
    IF s # <<>> /\ Head(s) = " " THEN TrimStart(Tail(s)) ELSE s

RECURSIVE TrimEnd(_)
TrimEnd(s) ==
    IF s # <<>> /\ s[Len(s)] = " " THEN TrimEnd(SubSeq(s, 1, Len(s) - 1))
    ELSE s

\* String.prototype.trim
Trim(s) == TrimEnd(TrimStart(s))

\* toLowerCase, then replace(/[^a-z0-9_-]/g, '-'), of one character
SlugChar(c) ==
    LET lower == IF c = "B" THEN "b" ELSE c
    IN  IF lower \in {"a", "b"} THEN lower ELSE "-"

\* customSlug.trim().toLowerCase().replace(/[^a-z0-9_-]/g, '-')
ShortCodeOf(customSlug) ==
    [i \in 1..Len(Trim(customSlug)) |-> SlugChar(Trim(customSlug)[i])]

\* crypto.randomBytes(4).toString('hex'): the bytes drawn are n
RandomCode(n) == Substring0(UuidHex(n), 8)

Undefined == [undefined |-> TRUE]

\* getShortUrlBySlug, resolved: urls.find(url => url.shortCode === shortCode)
GetShortUrlBySlug(urls, shortCode) ==
    LET i == FirstOf({j \in 1..Len(urls) : urls[j].shortCode = shortCode})
    IN  IF i = 0 THEN Undefined ELSE urls[i]

\* what calling an async method without await evaluates to
PromiseOf(v) == [promise |-> TRUE, value |-> v]

\* a value in the condition of an if: an object, a promise too, is truthy
Truthy(x) == x # Undefined

\* the record the handler hands to createShortUrl
NewShortUrl(id, shortCode, apiKey, t) ==
    [id |-> id, shortCode |-> shortCode, createdAt |-> t, clickCount |-> 0,
     createdBy |-> apiKey, isActive |-> TRUE]

\* the handler, which awaits nothing: logApiUsage is started; a custom slug
\* is looked up and 400 is answered when the lookup's value is truthy;
\* otherwise createShortUrl is started and 200 answered
CallShortUrl(apiKey, customSlug, n) ==
    /\ calls' = calls + 1
    /\ LET custom == customSlug # <<>> /\ Trim(customSlug) # <<>>
           shortCode == IF custom THEN ShortCodeOf(customSlug)
                        ELSE RandomCode(n)
           existingUrl == PromiseOf(GetShortUrlBySlug(shortUrls, shortCode))
           logging == [NewTask("logApiUsage", "l_read",
                               [endpoint |-> "shorturl_create"])
                       EXCEPT !.phase = "log", !.key = apiKey]
           creating == NewTask("createShortUrl", "su_read",
                               NewShortUrl(nextId + 1, shortCode, apiKey, now))
       IN  IF custom /\ Truthy(existingUrl)
           THEN /\ nextId' = nextId + 1
                /\ tasks' = tasks @@ (nextId :> logging)
                /\ last' = [op |-> "shorturl", id |-> nextId, status |-> 400,
                            error |-> "Custom slug already in use",
                            shortCode |-> shortCode]
           ELSE /\ nextId' = nextId + 2
                /\ tasks' = tasks @@ (nextId :> logging)
                                  @@ ((nextId + 1) :> creating)
                /\ last' = [op |-> "shorturl", id |-> nextId, status |-> 200,
                            error |-> "", shortCode |-> shortCode]
    /\ UNCHANGED <<users, apiKeys, logs, now, issued, revoked, recorded,
                   faults, session, shortUrls>>

\* createShortUrl: read shorturls.json
ShortUrlRead(id) ==
    /\ id \in DOMAIN tasks
    /\ tasks[id].pc = "su_read"
    /\ Goto(id, [tasks[id] EXCEPT !.pc = "su_write", !.data = shortUrls])
    /\ last' = None
    /\ UNCHANGED <<users, apiKeys, logs, now, nextId, calls, issued, revoked,
                   recorded, faults, session, shortUrls>>

\* createShortUrl: push on the data it read, write
ShortUrlWrite(id) ==
    /\ id \in DOMAIN tasks
    /\ tasks[id].pc = "su_write"
    /\ shortUrls' = Append(tasks[id].data, tasks[id].arg)
    /\ last' = None
    /\ Drop(id)
    /\ UNCHANGED <<users, apiKeys, logs, now, nextId, calls, issued, revoked,
                   recorded, faults, session>>

NextShort ==
    \/ /\ calls < MaxSeqOps
       /\ Idle
       /\ \E k \in Secrets, slug \in Slugs, n \in 1..2 : CallShortUrl(k, slug, n)
    \/ \E id \in DOMAIN tasks :
          \/ ShortUrlRead(id)
          \/ ShortUrlWrite(id)
          \/ LogRead(id)
          \/ LogWrite(id)
          \/ LogValidateRead(id)
          \/ ValidateWrite(id)
          \/ ValidateUser(id)
          \/ UsageRead(id)
          \/ UsageWrite(id)

SpecShort == InitRace /\ [][NextShort]_vars

\* C30: a request with a custom slug is answered 'Custom slug already in
\* use' exactly when shorturls.json holds a record with that shortCode.
C30_SlugRejectedIffStored ==
    [][\A k \in Secrets, slug \in Slugs, n \in 1..2 :
          (CallShortUrl(k, slug, n) /\ Trim(slug) # <<>>) =>
              (last'.status = 400 <=>
                  \E i \in 1..Len(shortUrls) :
                      shortUrls[i].shortCode = ShortCodeOf(slug))]_vars

====
